---- MODULE Spec2Model ----
(***************************************************************************)
(* Sleep-tracker comparison: the Oura (phase-code) and Ultrahuman          *)
(* (segment-list) normalizers with their per-day reconciliation, the       *)
(* merge with the anecdotal series and the error columns.                  *)
(*                                                                         *)
(* A behaviour is one run of one of the entry points: oura_api.py          *)
(* (get_oura_sleep_data, then process_sleep_data), ultrahuman_api.py       *)
(* (the loop of get_ultrahuman_sleep_data, then                            *)
(* process_ultrahuman_sleep_data; or the latter on a given list), the      *)
(* functions of the analysis (create_dataframes, then calculate_errors)    *)
(* or main_analysis.py as a script.  The payloads, the HTTP statuses, the  *)
(* exclusion list and the anecdotal table are the inputs.                  *)
(*                                                                         *)
(* Calendar days are day ordinals (ISO date strings sort as their days do);*)
(* datetimes are seconds on the local time line; the host is taken to run  *)
(* on UTC without daylight saving.                                         *)
(***************************************************************************)
EXTENDS Integers, Sequences, FiniteSets, TLC

VARIABLES
    run,                        \* which entry point this behaviour runs
    pc,                         \* the call that comes next
    dates_to_exclude,           \* the exclusion list (used as a set)
    response,                   \* Oura: the HTTP response [status_code, data]
    oura_raw_data,              \* result of get_oura_sleep_data
    oura_processed_data,        \* result of process_sleep_data
    start_date,                 \* Ultrahuman fetch: first day asked for, None when not called
    end_date,                   \* Ultrahuman fetch: last day asked for
    current_date,               \* Ultrahuman fetch: the loop's day
    requests,                   \* Ultrahuman fetch: the requests made so far and their answers
    ultrahuman_raw_data,        \* the list handed to process_ultrahuman_sleep_data
    ultrahuman_processed_data,  \* result of process_ultrahuman_sleep_data
    anecdotal_data,             \* the self-reported table
    merged_df,                  \* result of create_dataframes / calculate_errors
    raised                      \* the exception that ended the run, or "none"

\* The variables of the loop of get_ultrahuman_sleep_data
fetch_vars ==
    <<start_date, end_date, current_date, requests>>

vars ==
    <<run, pc, dates_to_exclude, response, oura_raw_data, oura_processed_data,
      fetch_vars, ultrahuman_raw_data, ultrahuman_processed_data, anecdotal_data,
      merged_df, raised>>

(***************************************************************************)
(* Bounds of the model                                                     *)
(***************************************************************************)
NumDays == 2
MaxSessions == 3
MaxPhases == 5
MaxSegments == 3

Days == 1..NumDays

SeqsUpTo(S, n) ==
    UNION {[1..k -> S] : k \in 0..n}

\* Python None for an index that next(...) did not find
None == -1

(***************************************************************************)
(* oura_api.py                                                             *)
(***************************************************************************)

\* Stage durations in seconds as the vendor sends them; rem_present is
\* "'rem_sleep_duration' in session".
OuraStageChoices ==
    { [deep |-> 60,  light |-> 60,  rem |-> 60, rem_present |-> TRUE],
      [deep |-> 30,  light |-> 30,  rem |-> 0,  rem_present |-> TRUE],
      [deep |-> 300, light |-> 300, rem |-> 0,  rem_present |-> FALSE] }

Clock(h, m) ==
    [hour |-> h, minute |-> m]

\* Bedtime start / end wall-clock times (the date part is never read).
OuraClockChoices ==
    { <<Clock(23, 0),  Clock(7, 0)>>,
      <<Clock(23, 50), Clock(0, 15)>>,
      <<Clock(0, 0),   Clock(0, 25)>>,
      <<Clock(11, 50), Clock(12, 15)>> }

PhaseChars == {"0", "1", "4"}

OuraAwakeChoices == {900}

OuraSession(i, d, st, ck, ph, aw) ==
    [ id |-> i, day |-> d,
      deep_sleep_duration |-> st.deep,
      light_sleep_duration |-> st.light,
      rem_sleep_duration |-> st.rem,
      rem_present |-> st.rem_present,
      total_sleep_duration |-> st.deep + st.light + st.rem,
      bedtime_start |-> ck[1], bedtime_end |-> ck[2],
      sleep_phase_5_min |-> ph,
      awake_time |-> aw ]

\* Several sessions, possibly of the same day, that differ in their stages.
OuraReconcileData ==
    UNION { { [i \in 1..k |->
                 OuraSession(i, f[i][1], f[i][2], <<Clock(23, 0), Clock(7, 0)>>,
                             <<"4", "1", "1">>, 0)] :
              f \in [1..k -> Days \X OuraStageChoices] } : k \in 0..MaxSessions }

\* One session with any phase string, clock times and awake time.
OuraWindowData ==
    { << OuraSession(1, 1, st, ck, ph, aw) >> :
        st \in { s \in OuraStageChoices : s.deep = 60 },
        ck \in OuraClockChoices,
        ph \in SeqsUpTo(PhaseChars, MaxPhases),
        aw \in OuraAwakeChoices }

OuraResponses ==
    { [status_code |-> 200, data |-> d] : d \in OuraReconcileData \cup OuraWindowData }
    \cup { [status_code |-> 500, data |-> <<>>] }

\* line 45: the conditional expression spans the whole sum
oura_total_sleep_duration(session) ==
    IF session.rem_present
    THEN session.deep_sleep_duration + session.light_sleep_duration
            + session.rem_sleep_duration
    ELSE 0

\* Position of the entry of `day` in an insertion-ordered dict, 0 if absent.
DictIndex(byDay, day) ==
    IF \E i \in 1..Len(byDay) : byDay[i].day = day
    THEN CHOOSE i \in 1..Len(byDay) : byDay[i].day = day
    ELSE 0

\* sleep_data_by_day[day] = value: a new key goes last, a known key keeps its place
DictPut(byDay, day, value) ==
    IF DictIndex(byDay, day) = 0
    THEN Append(byDay, value)
    ELSE [byDay EXCEPT ![DictIndex(byDay, day)] = value]

\* line 46: the session replaces the kept one only when strictly longer
oura_replaces(byDay, day, total) ==
    \/ DictIndex(byDay, day) = 0
    \/ total > byDay[DictIndex(byDay, day)].total_sleep_duration

\* A slip of line 44: the exclusion test left out.
oura_group_step_unfiltered(byDay, session, excl) ==
    LET total == oura_total_sleep_duration(session)
    IN  IF oura_replaces(byDay, session.day, total)
        THEN DictPut(byDay, session.day, [session EXCEPT !.total_sleep_duration = total])
        ELSE byDay

\* lines 42-48, one iteration
oura_group_step(byDay, session, excl) ==
    IF session.day \notin excl
    THEN LET total == oura_total_sleep_duration(session)
         IN  IF oura_replaces(byDay, session.day, total)
             THEN DictPut(byDay, session.day,
                          [session EXCEPT !.total_sleep_duration = total])
             ELSE byDay
    ELSE byDay

RECURSIVE oura_group(_, _, _)
oura_group(data, excl, byDay) ==
    IF data = <<>>
    THEN byDay
    ELSE oura_group(Tail(data), excl, oura_group_step(byDay, Head(data), excl))

\* sorted(values, key=day): stable insertion sort on the day
RECURSIVE SortInsert(_, _)
SortInsert(sorted, x) ==
    IF sorted = <<>>
    THEN <<x>>
    ELSE IF x.day < Head(sorted).day
         THEN <<x>> \o sorted
         ELSE <<Head(sorted)>> \o SortInsert(Tail(sorted), x)

\* A slip of lines 51 / 118: the values returned in the order the days were
\* first met, without the sort.
InInsertionOrder(s) ==
    s

RECURSIVE SortedByDay(_)
SortedByDay(s) ==
    IF s = <<>>
    THEN <<>>
    ELSE SortInsert(SortedByDay(SubSeq(s, 1, Len(s) - 1)), s[Len(s)])

\* lines 38-52
oura_filtered_data(data, excl) ==
    SortedByDay(oura_group(data, excl, <<>>))

get_oura_sleep_data ==
    /\ run = "oura_api"
    /\ pc = "get_oura_sleep_data"
    /\ IF response.status_code = 200
       THEN /\ oura_raw_data' = oura_filtered_data(response.data, dates_to_exclude)
            /\ pc' = IF oura_raw_data' # <<>> THEN "process_sleep_data" ELSE "done"
            /\ raised' = "none"
       ELSE /\ oura_raw_data' = oura_raw_data
            /\ pc' = "aborted"
            /\ raised' = "Exception"
    /\ UNCHANGED <<fetch_vars, run, dates_to_exclude, response, oura_processed_data,
                   ultrahuman_raw_data, ultrahuman_processed_data, anecdotal_data,
                   merged_df>>

\* A slip of line 60: noon itself counted as a morning hour.
oura_time_to_minutes_noon_am(time) ==
    LET minutes == time.hour * 60 + time.minute
        am == IF time.hour <= 12 THEN minutes + 24 * 60 ELSE minutes
    IN  am - 24 * 60

\* lines 57-62
oura_time_to_minutes(time) ==
    LET minutes == time.hour * 60 + time.minute
        am == IF time.hour < 12 THEN minutes + 24 * 60 ELSE minutes
    IN  am - 24 * 60

\* int(phase) of one character
PhaseDigit(c) ==
    CASE c = "0" -> 0 [] c = "1" -> 1 [] c = "2" -> 2 [] c = "3" -> 3 [] c = "4" -> 4

\* lines 64-65
parse_sleep_phases(sleep_phase_str) ==
    [i \in 1..Len(sleep_phase_str) |-> PhaseDigit(sleep_phase_str[i])]

\* line 80: 0-based index of the first phase that is not 4, or None
start_index(sleep_phases) ==
    LET hits == {i \in 1..Len(sleep_phases) : sleep_phases[i] # 4}
    IN  IF hits = {} THEN None
        ELSE (CHOOSE i \in hits : \A j \in hits : i <= j) - 1

\* line 84: 0-based index of the last phase that is not 4, or None
end_index(sleep_phases) ==
    LET hits == {i \in 1..Len(sleep_phases) : sleep_phases[i] # 4}
    IN  IF hits = {} THEN None
        ELSE (CHOOSE i \in hits : \A j \in hits : i >= j) - 1

\* line 81
oura_sleeptime_start(bedtime_start, sleep_phases) ==
    bedtime_start
      + (IF start_index(sleep_phases) # None THEN start_index(sleep_phases) * 5 ELSE 0)

\* A slip of line 85: the end of the window put at the start of the last
\* asleep bucket.
oura_sleeptime_end_short(bedtime_start, sleep_phases) ==
    bedtime_start
      + (IF end_index(sleep_phases) # None
         THEN end_index(sleep_phases) * 5
         ELSE Len(sleep_phases) * 5)

\* line 85
oura_sleeptime_end(bedtime_start, sleep_phases) ==
    bedtime_start
      + (IF end_index(sleep_phases) # None
         THEN (end_index(sleep_phases) + 1) * 5
         ELSE Len(sleep_phases) * 5)

\* line 88, for indices that are not None: the slice [start_index : end_index + 1]
awake_time_filtered_phases(sleep_phases) ==
    Cardinality({i \in 1..Len(sleep_phases) :
                    /\ start_index(sleep_phases) + 1 <= i
                    /\ i <= end_index(sleep_phases) + 1
                    /\ sleep_phases[i] = 4}) * 5

Max(a, b) ==
    IF a >= b THEN a ELSE b

\* What one iteration of lines 69-107 raises: line 88 adds 1 to None when no
\* phase is asleep; line 104 reads a key the session may lack.
oura_entry_error(sleep_data) ==
    IF end_index(parse_sleep_phases(sleep_data.sleep_phase_5_min)) = None
    THEN "TypeError"
    ELSE IF ~sleep_data.rem_present THEN "KeyError" ELSE "none"

\* lines 72-106
oura_processed_entry(sleep_data) ==
    LET bedtime_start == oura_time_to_minutes(sleep_data.bedtime_start)
        bedtime_end == oura_time_to_minutes(sleep_data.bedtime_end)
        sleep_phases == parse_sleep_phases(sleep_data.sleep_phase_5_min)
        sleeptime_start == oura_sleeptime_start(bedtime_start, sleep_phases)
        sleeptime_end == oura_sleeptime_end(bedtime_start, sleep_phases)
        total_awake_time == sleep_data.awake_time \div 60
        trimmed_time == (sleeptime_start - bedtime_start) + (bedtime_end - sleeptime_end)
    IN  [ day |-> sleep_data.day,
          bedtime_start |-> bedtime_start,
          bedtime_end |-> bedtime_end,
          sleeptime_start |-> sleeptime_start,
          sleeptime_end |-> sleeptime_end,
          deep_sleep_duration |-> sleep_data.deep_sleep_duration \div 60,
          awake_time_filtered_phases |-> awake_time_filtered_phases(sleep_phases),
          awake_time_filtered_subtraction |-> Max(0, total_awake_time - trimmed_time),
          light_sleep_duration |-> sleep_data.light_sleep_duration \div 60,
          rem_sleep_duration |-> sleep_data.rem_sleep_duration \div 60,
          total_sleep_duration |-> sleep_data.total_sleep_duration \div 60 ]

\* line 70
oura_included(sleep_data_list, excl) ==
    SelectSeq(sleep_data_list, LAMBDA s : s.day \notin excl)

\* The first exception of the loop, "none" when it runs through.
RECURSIVE oura_first_error(_)
oura_first_error(list) ==
    IF list = <<>>
    THEN "none"
    ELSE IF oura_entry_error(Head(list)) # "none"
         THEN oura_entry_error(Head(list))
         ELSE oura_first_error(Tail(list))

\* lines 67-109 when no iteration raises
oura_processed_data_of(sleep_data_list) ==
    [i \in 1..Len(sleep_data_list) |-> oura_processed_entry(sleep_data_list[i])]

process_sleep_data ==
    /\ run = "oura_api"
    /\ pc = "process_sleep_data"
    /\ LET todo == oura_included(oura_raw_data, dates_to_exclude)
           err == oura_first_error(todo)
       IN  IF err = "none"
           THEN /\ oura_processed_data' = oura_processed_data_of(todo)
                /\ pc' = "done"
                /\ raised' = "none"
           ELSE /\ oura_processed_data' = oura_processed_data
                /\ pc' = "aborted"
                /\ raised' = err
    /\ UNCHANGED <<fetch_vars, run, dates_to_exclude, response, oura_raw_data,
                   ultrahuman_raw_data, ultrahuman_processed_data, anecdotal_data,
                   merged_df>>

InitOura ==
    /\ run = "oura_api"
    /\ pc = "get_oura_sleep_data"
    /\ response \in OuraResponses
    /\ dates_to_exclude \in SUBSET Days
    /\ oura_raw_data = <<>>
    /\ oura_processed_data = <<>>
    /\ ultrahuman_raw_data = <<>>
    /\ ultrahuman_processed_data = <<>>
    /\ anecdotal_data = <<>>
    /\ merged_df = <<>>
    /\ start_date = None
    /\ end_date = None
    /\ current_date = None
    /\ requests = <<>>
    /\ raised = "none"

(***************************************************************************)
(* ultrahuman_api.py                                                       *)
(***************************************************************************)

\* datetime.fromtimestamp: the local calendar date and the second of that day
fromtimestamp(ts) ==
    [date |-> ts \div 86400, seconds |-> ts % 86400]

\* datetime.timestamp, the way back
timestamp(dt) ==
    dt.date * 86400 + dt.seconds

\* dt1 - dt2 as a normalised timedelta: 0 <= seconds < 86400, days may be negative
timedelta(dt1, dt2) ==
    LET total == (dt1.date - dt2.date) * 86400 + (dt1.seconds - dt2.seconds)
    IN  [days |-> total \div 86400, seconds |-> total % 86400]

\* timedelta a > timedelta b
timedelta_gt(a, b) ==
    \/ a.days > b.days
    \/ a.days = b.days /\ a.seconds > b.seconds

\* line 58: bedtime_end.replace(hour=0, minute=0, second=0, microsecond=0)
midnight_of(dt) ==
    [date |-> dt.date, seconds |-> 0]

\* A slip of line 50: the days of the timedelta left out, so that a time
\* before the reference midnight lands on the evening of the same day.
ultrahuman_time_to_minutes_seconds_only(dt, reference_date) ==
    LET delta == timedelta(dt, reference_date)
    IN  delta.seconds \div 60

\* lines 48-50
ultrahuman_time_to_minutes(dt, reference_date) ==
    LET delta == timedelta(dt, reference_date)
    IN  delta.days * 24 * 60 + delta.seconds \div 60

Stage(t, secs) ==
    [type |-> t, stage_time |-> secs]

Segment(t, s, e) ==
    [type |-> t, start |-> s, end |-> e]

\* The vendor's per-stage summary lists; the second has no rem_sleep entry.
StagesFull ==
    << Stage("deep_sleep", 3600), Stage("light_sleep", 7200),
       Stage("rem_sleep", 1800), Stage("awake", 600) >>

StagesNoRem ==
    << Stage("light_sleep", 16230), Stage("awake", 0), Stage("deep_sleep", 1830) >>

\* Bedtime start / end epoch seconds of a session that ends on day d:
\* 23:00-08:00, 22:00-07:00 (as long as the first) and 00:30-06:00.
UltrahumanBedChoices(d) ==
    { << d * 86400 - 3600, d * 86400 + 8 * 3600 >>,
      << d * 86400 - 7200, d * 86400 + 7 * 3600 >>,
      << d * 86400 + 1800, d * 86400 + 6 * 3600 >> }

UltrahumanRecord(bed, stages, graph) ==
    [ bedtime_start |-> bed[1], bedtime_end |-> bed[2],
      sleep_stages |-> stages,
      sleep_graph |-> graph ]

\* The long nights come with the short stage summary or the long one, the short
\* night with the long one.
UltrahumanReconcileChoices ==
    UNION { { << << d * 86400 - 3600, d * 86400 + 8 * 3600 >>, StagesFull >>,
              << << d * 86400 - 7200, d * 86400 + 7 * 3600 >>, StagesNoRem >>,
              << << d * 86400 + 1800, d * 86400 + 6 * 3600 >>, StagesNoRem >> } :
            d \in Days }

\* Several records, possibly of the same day, that differ in window and stages.
UltrahumanReconcileData ==
    UNION { { [i \in 1..k |->
                 UltrahumanRecord(f[i][1], f[i][2],
                     << Segment("light_sleep", f[i][1][1] + 600, f[i][1][2] - 600) >>)] :
              f \in [1..k -> UltrahumanReconcileChoices] } : k \in 0..MaxSessions }

\* Sleep-graph segments of a night that starts at 23:00 (GraphBase) before day 1;
\* they may overlap, and awake ones may reach over the edge of the sleep window.
GraphBase ==
    1 * 86400 - 3600

SegmentPool ==
    { Segment("light_sleep", GraphBase + 0, GraphBase + 300),
      Segment("light_sleep", GraphBase + 90, GraphBase + 300),
      Segment("deep_sleep", GraphBase + 360, GraphBase + 600),
      Segment("awake", GraphBase + 300, GraphBase + 360),
      Segment("awake", GraphBase + 270, GraphBase + 360),
      Segment("awake", GraphBase + 0, GraphBase + 90),
      Segment("awake", GraphBase + 540, GraphBase + 690),
      Segment("awake", GraphBase + 600, GraphBase + 660) }

\* One record with any sleep graph.
UltrahumanWindowData ==
    { << UltrahumanRecord(<<GraphBase, 86400 + 8 * 3600>>, stages, graph) >> :
        stages \in { StagesFull },
        graph \in SeqsUpTo(SegmentPool, MaxSegments) }

\* line 55: the date of bedtime end is the day key
ultrahuman_day(sleep_data) ==
    fromtimestamp(sleep_data.bedtime_end).date

\* line 64
ultrahuman_duration(sleep_data) ==
    timedelta(fromtimestamp(sleep_data.bedtime_end), fromtimestamp(sleep_data.bedtime_start))

\* A slip of line 61: >= for >, so that the last of equally long records wins.
ultrahuman_replaces_on_tie(daily, day, duration) ==
    \/ DictIndex(daily, day) = 0
    \/ ~timedelta_gt(daily[DictIndex(daily, day)].duration, duration)

\* line 61: the record replaces the kept one only when strictly longer in bed
ultrahuman_replaces(daily, day, duration) ==
    \/ DictIndex(daily, day) = 0
    \/ timedelta_gt(duration, daily[DictIndex(daily, day)].duration)

\* lines 52-66, one iteration
ultrahuman_group_step(daily, sleep_data, excl) ==
    LET day == ultrahuman_day(sleep_data)
    IN  IF day \notin excl /\ ultrahuman_replaces(daily, day, ultrahuman_duration(sleep_data))
        THEN DictPut(daily, day,
                     [ day |-> day,
                       data |-> sleep_data,
                       duration |-> ultrahuman_duration(sleep_data),
                       reference_date |-> midnight_of(fromtimestamp(sleep_data.bedtime_end)) ])
        ELSE daily

RECURSIVE ultrahuman_group(_, _, _)
ultrahuman_group(list, excl, daily) ==
    IF list = <<>>
    THEN daily
    ELSE ultrahuman_group(Tail(list), excl, ultrahuman_group_step(daily, Head(list), excl))

\* lines 79-82: next(stage of that type, {'stage_time': 0})
stage_time_of(sleep_stages, t) ==
    LET hits == {i \in 1..Len(sleep_stages) : sleep_stages[i].type = t}
    IN  IF hits = {} THEN 0
        ELSE sleep_stages[CHOOSE i \in hits : \A j \in hits : i <= j].stage_time

RECURSIVE SumSeq(_)
SumSeq(s) ==
    IF s = <<>> THEN 0 ELSE Head(s) + SumSeq(Tail(s))

\* line 114: the sum over the stages that are not awake, in seconds
non_awake_stage_time(sleep_stages) ==
    SumSeq([i \in 1..Len(sleep_stages) |->
              IF sleep_stages[i].type # "awake" THEN sleep_stages[i].stage_time ELSE 0])

\* line 85
non_awake_segments(sleep_graph) ==
    SelectSeq(sleep_graph, LAMBDA segment : segment.type # "awake")

MinOf(S) ==
    CHOOSE x \in S : \A y \in S : x <= y

MaxOf(S) ==
    CHOOSE x \in S : \A y \in S : x >= y

\* A slip of line 88: the start of the first non-awake segment of the list
\* taken for the earliest one.
ultrahuman_sleeptime_start_first(sleep_graph) ==
    fromtimestamp(non_awake_segments(sleep_graph)[1].start)

\* line 88
ultrahuman_sleeptime_start(sleep_graph) ==
    fromtimestamp(MinOf({non_awake_segments(sleep_graph)[i].start :
                            i \in 1..Len(non_awake_segments(sleep_graph))}))

\* line 89
ultrahuman_sleeptime_end(sleep_graph) ==
    fromtimestamp(MaxOf({non_awake_segments(sleep_graph)[i].end :
                            i \in 1..Len(non_awake_segments(sleep_graph))}))

\* A slip of line 97: <= for <, counting a segment that starts at sleep end.
awake_counted_to_end(segment, sleeptime_start, sleeptime_end) ==
    /\ segment.type = "awake"
    /\ timestamp(sleeptime_start) <= segment.start
    /\ segment.start <= timestamp(sleeptime_end)

\* line 97: the awake segments that are counted
awake_counted(segment, sleeptime_start, sleeptime_end) ==
    /\ segment.type = "awake"
    /\ timestamp(sleeptime_start) <= segment.start
    /\ segment.start < timestamp(sleeptime_end)

\* lines 94-98
awake_time_filtered(sleep_graph, sleeptime_start, sleeptime_end) ==
    SumSeq([i \in 1..Len(sleep_graph) |->
              IF awake_counted(sleep_graph[i], sleeptime_start, sleeptime_end)
              THEN sleep_graph[i].end - sleep_graph[i].start
              ELSE 0]) \div 60

\* lines 70-115
ultrahuman_processed_entry(day_sleep_data) ==
    LET sleep_data == day_sleep_data.data
        reference_date == day_sleep_data.reference_date
        bedtime_start_minutes ==
            ultrahuman_time_to_minutes(fromtimestamp(sleep_data.bedtime_start), reference_date)
        bedtime_end_minutes ==
            ultrahuman_time_to_minutes(fromtimestamp(sleep_data.bedtime_end), reference_date)
        sleep_stages == sleep_data.sleep_stages
        sleep_graph == sleep_data.sleep_graph
        asleep == non_awake_segments(sleep_graph) # <<>>
    IN  [ day |-> day_sleep_data.day,
          bedtime_start |-> bedtime_start_minutes,
          bedtime_end |-> bedtime_end_minutes,
          sleeptime_start |->
              IF asleep
              THEN ultrahuman_time_to_minutes(ultrahuman_sleeptime_start(sleep_graph),
                                              reference_date)
              ELSE bedtime_start_minutes,
          sleeptime_end |->
              IF asleep
              THEN ultrahuman_time_to_minutes(ultrahuman_sleeptime_end(sleep_graph),
                                              reference_date)
              ELSE bedtime_end_minutes,
          deep_sleep_duration |-> stage_time_of(sleep_stages, "deep_sleep") \div 60,
          awake_time_filtered |->
              IF asleep
              THEN awake_time_filtered(sleep_graph, ultrahuman_sleeptime_start(sleep_graph),
                                       ultrahuman_sleeptime_end(sleep_graph))
              ELSE 0,
          light_sleep_duration |-> stage_time_of(sleep_stages, "light_sleep") \div 60,
          rem_sleep_duration |-> stage_time_of(sleep_stages, "rem_sleep") \div 60,
          total_sleep_duration |-> non_awake_stage_time(sleep_stages) \div 60 ]

\* lines 43-118
ultrahuman_processed(sleep_data_list, excl) ==
    LET daily == ultrahuman_group(sleep_data_list, excl, <<>>)
    IN  SortedByDay([i \in 1..Len(daily) |-> ultrahuman_processed_entry(daily[i])])

process_ultrahuman_sleep_data ==
    /\ run = "ultrahuman_api"
    /\ pc = "process_ultrahuman_sleep_data"
    /\ ultrahuman_processed_data' = ultrahuman_processed(ultrahuman_raw_data, dates_to_exclude)
    /\ pc' = "done"
    /\ UNCHANGED <<fetch_vars, run, dates_to_exclude, response, oura_raw_data, oura_processed_data,
                   ultrahuman_raw_data, anecdotal_data, merged_df, raised>>

\* The HTTP status of one request: answered, or refused.
StatusChoices ==
    {200, 500}

\* response.json()['data']['metric_data'][6] for a date: a night that ends on it.
UltrahumanDayRecords(d) ==
    { UltrahumanRecord(bed, StagesFull,
                       << Segment("light_sleep", bed[1] + 600, bed[2] - 600) >>) :
        bed \in { b \in UltrahumanBedChoices(d) : b[1] # d * 86400 - 7200 } }

\* The entry of `requests` for one call of requests.get: the date asked for,
\* the status and, in a one-element list, the record of a 200 answer.
Request(date, status_code, sleep_data) ==
    [ date |-> date, status_code |-> status_code,
      data |-> IF status_code = 200 THEN <<sleep_data>> ELSE <<>> ]

\* A slip of lines 31-36: the record appended whatever the status.
sleep_data_list_after_any(sleep_data_list, status_code, sleep_data) ==
    Append(sleep_data_list, sleep_data)

\* lines 31-36: a 200 answer is appended, any other is printed and passed over
sleep_data_list_after(sleep_data_list, status_code, sleep_data) ==
    IF status_code = 200
    THEN Append(sleep_data_list, sleep_data)
    ELSE sleep_data_list

\* lines 22-40: one pass through the test of the while loop, the body of the
\* loop with its request when the test holds, the return when it does not
\* (the caller processes a list that is not empty, lines 176-183).
get_ultrahuman_sleep_data ==
    /\ run = "ultrahuman_api"
    /\ pc = "get_ultrahuman_sleep_data"
    /\ IF current_date <= end_date
       THEN /\ IF current_date \notin dates_to_exclude
               THEN \E status_code \in StatusChoices :
                    \E sleep_data \in UltrahumanDayRecords(current_date) :
                       /\ requests' = Append(requests,
                                             Request(current_date, status_code, sleep_data))
                       /\ ultrahuman_raw_data'
                             = sleep_data_list_after(ultrahuman_raw_data, status_code,
                                                     sleep_data)
               ELSE UNCHANGED <<requests, ultrahuman_raw_data>>
            /\ current_date' = current_date + 1
            /\ pc' = pc
       ELSE /\ pc' = IF ultrahuman_raw_data # <<>>
                     THEN "process_ultrahuman_sleep_data"
                     ELSE "done"
            /\ UNCHANGED <<current_date, requests, ultrahuman_raw_data>>
    /\ UNCHANGED <<start_date, end_date, run, dates_to_exclude, response, oura_raw_data,
                   oura_processed_data, ultrahuman_processed_data, anecdotal_data,
                   merged_df, raised>>

InitUltrahuman ==
    /\ run = "ultrahuman_api"
    /\ pc = "process_ultrahuman_sleep_data"
    /\ response = [status_code |-> 200, data |-> <<>>]
    /\ dates_to_exclude \in SUBSET Days
    /\ oura_raw_data = <<>>
    /\ oura_processed_data = <<>>
    /\ ultrahuman_raw_data \in (UltrahumanReconcileData \cup UltrahumanWindowData) \ {<<>>}
    /\ ultrahuman_processed_data = <<>>
    /\ anecdotal_data = <<>>
    /\ merged_df = <<>>
    /\ start_date = None
    /\ end_date = None
    /\ current_date = None
    /\ requests = <<>>
    /\ raised = "none"

\* ultrahuman_api.py run as a script: lines 13-21, before the loop
InitUltrahumanFetch ==
    /\ run = "ultrahuman_api"
    /\ pc = "get_ultrahuman_sleep_data"
    /\ response = [status_code |-> 200, data |-> <<>>]
    /\ dates_to_exclude \in SUBSET Days
    /\ oura_raw_data = <<>>
    /\ oura_processed_data = <<>>
    /\ start_date \in Days
    /\ \E end_date_arg \in Days \cup {None} :
          end_date = IF end_date_arg = None THEN start_date ELSE end_date_arg
    /\ current_date = start_date
    /\ requests = <<>>
    /\ ultrahuman_raw_data = <<>>
    /\ ultrahuman_processed_data = <<>>
    /\ anecdotal_data = <<>>
    /\ merged_df = <<>>
    /\ raised = "none"

(***************************************************************************)
(* main_analysis.py                                                        *)
(***************************************************************************)

\* A missing number after a left merge (pandas NaN) and a missing day (NaT);
\* every real cell of the model lies above both.
NaN == -999999

NaT == 0

AnecdotalChoices ==
    { [jared_sleep_start |-> -70, jared_total_sleep |-> 2, jared_sleep_end |-> -60],
      [jared_sleep_start |-> -40, jared_total_sleep |-> 5, jared_sleep_end |-> -30] }

\* The days of S in ascending order.
RECURSIVE DaysInOrder(_)
DaysInOrder(S) ==
    IF S = {} THEN <<>> ELSE <<MinOf(S)>> \o DaysInOrder(S \ {MinOf(S)})

\* One row per day of a set of days, in date order.
AnecdotalTables ==
    UNION { { [i \in 1..Cardinality(S) |->
                 [ Date |-> DaysInOrder(S)[i],
                   jared_sleep_start |-> f[DaysInOrder(S)[i]].jared_sleep_start,
                   jared_total_sleep |-> f[DaysInOrder(S)[i]].jared_total_sleep,
                   jared_sleep_end |-> f[DaysInOrder(S)[i]].jared_sleep_end ]] :
              f \in [S -> AnecdotalChoices] } : S \in (SUBSET Days) \ {{}} }

\* What process_sleep_data returns for one session a day on the days of some set.
OuraMergeData ==
    UNION { { oura_processed_data_of(
                [i \in 1..Cardinality(S) |->
                    OuraSession(i, DaysInOrder(S)[i], f[DaysInOrder(S)[i]],
                                <<Clock(23, 0), Clock(7, 0)>>, <<"4", "1", "1">>, 0)]) :
              f \in [S -> { st \in OuraStageChoices : st.rem_present }] } :
            S \in SUBSET Days }

\* What process_ultrahuman_sleep_data returns for one record a day on such days.
UltrahumanMergeData ==
    UNION { { ultrahuman_processed(
                [i \in 1..Cardinality(S) |->
                    UltrahumanRecord(f[DaysInOrder(S)[i]],
                        StagesFull,
                        << Segment("light_sleep", f[DaysInOrder(S)[i]][1] + 600,
                                   f[DaysInOrder(S)[i]][2] - 600) >>)], {}) :
              f \in { g \in [S -> UNION { UltrahumanBedChoices(d) : d \in Days }] :
                        \A d \in S : g[d] \in UltrahumanBedChoices(d) /\ g[d][1] > d * 86400 - 7200 } } :
            S \in SUBSET Days }

RECURSIVE Flatten(_)
Flatten(ss) ==
    IF ss = <<>> THEN <<>> ELSE Head(ss) \o Flatten(Tail(ss))

\* The columns of oura_df when no row matches.
oura_nulls ==
    [ day |-> NaT, bedtime_start |-> NaN, bedtime_end |-> NaN, sleeptime_start |-> NaN,
      sleeptime_end |-> NaN, deep_sleep_duration |-> NaN,
      awake_time_filtered_phases |-> NaN, awake_time_filtered_subtraction |-> NaN,
      light_sleep_duration |-> NaN, rem_sleep_duration |-> NaN,
      total_sleep_duration |-> NaN ]

\* The columns of ultrahuman_df other than the key when no row matches.
ultrahuman_nulls ==
    [ bedtime_start |-> NaN, bedtime_end |-> NaN, sleeptime_start |-> NaN,
      sleeptime_end |-> NaN, deep_sleep_duration |-> NaN, awake_time_filtered |-> NaN,
      light_sleep_duration |-> NaN, rem_sleep_duration |-> NaN,
      total_sleep_duration |-> NaN ]

\* line 30: anecdotal_data.merge(oura_df, left_on='Date', right_on='day', how='left')
merge_oura(anecdotal, oura_df) ==
    Flatten([i \in 1..Len(anecdotal) |->
        LET hits == SelectSeq(oura_df, LAMBDA o : o.day = anecdotal[i].Date)
        IN  IF hits = <<>>
            THEN << [left |-> anecdotal[i], oura |-> oura_nulls] >>
            ELSE [k \in 1..Len(hits) |-> [left |-> anecdotal[i], oura |-> hits[k]]]])

\* The key of the second merge: the 'day' column of the first merge's result.
second_merge_key(row) ==
    row.oura.day

\* line 31: merged_df.merge(ultrahuman_df, on='day', how='left',
\*                          suffixes=('_oura', '_ultrahuman'))
merge_ultrahuman(rows, ultrahuman_df) ==
    Flatten([i \in 1..Len(rows) |->
        LET hits == SelectSeq(ultrahuman_df, LAMBDA u : u.day = second_merge_key(rows[i]))
        IN  IF hits = <<>>
            THEN << [left |-> rows[i].left, oura |-> rows[i].oura,
                     ultrahuman |-> ultrahuman_nulls] >>
            ELSE [k \in 1..Len(hits) |->
                     [left |-> rows[i].left, oura |-> rows[i].oura, ultrahuman |-> hits[k]]]])

\* A slip of lines 34-36: the missing cells left as they are.
fillna_skipped(cell) ==
    cell

\* lines 34-36 on one cell of a float64 / int64 column
fillna(cell) ==
    IF cell = NaN THEN 0 ELSE cell

\* The row of merged_df with the column names the two merges give it; only the
\* columns both sides of the second merge share carry a suffix.
merged_row(r) ==
    [ Date |-> r.left.Date,
      jared_sleep_start |-> fillna(r.left.jared_sleep_start),
      jared_total_sleep |-> fillna(r.left.jared_total_sleep),
      jared_sleep_end |-> fillna(r.left.jared_sleep_end),
      day |-> r.oura.day,
      bedtime_start_oura |-> fillna(r.oura.bedtime_start),
      bedtime_end_oura |-> fillna(r.oura.bedtime_end),
      sleeptime_start_oura |-> fillna(r.oura.sleeptime_start),
      sleeptime_end_oura |-> fillna(r.oura.sleeptime_end),
      deep_sleep_duration_oura |-> fillna(r.oura.deep_sleep_duration),
      awake_time_filtered_phases |-> fillna(r.oura.awake_time_filtered_phases),
      awake_time_filtered_subtraction |-> fillna(r.oura.awake_time_filtered_subtraction),
      light_sleep_duration_oura |-> fillna(r.oura.light_sleep_duration),
      rem_sleep_duration_oura |-> fillna(r.oura.rem_sleep_duration),
      total_sleep_duration_oura |-> fillna(r.oura.total_sleep_duration),
      bedtime_start_ultrahuman |-> fillna(r.ultrahuman.bedtime_start),
      bedtime_end_ultrahuman |-> fillna(r.ultrahuman.bedtime_end),
      sleeptime_start_ultrahuman |-> fillna(r.ultrahuman.sleeptime_start),
      sleeptime_end_ultrahuman |-> fillna(r.ultrahuman.sleeptime_end),
      deep_sleep_duration_ultrahuman |-> fillna(r.ultrahuman.deep_sleep_duration),
      awake_time_filtered |-> fillna(r.ultrahuman.awake_time_filtered),
      light_sleep_duration_ultrahuman |-> fillna(r.ultrahuman.light_sleep_duration),
      rem_sleep_duration_ultrahuman |-> fillna(r.ultrahuman.rem_sleep_duration),
      total_sleep_duration_ultrahuman |-> fillna(r.ultrahuman.total_sleep_duration) ]

\* lines 22-38, for two vendor lists that are not empty
merged_table(oura_data, ultrahuman_data, anecdotal) ==
    LET rows == merge_ultrahuman(merge_oura(anecdotal, oura_data), ultrahuman_data)
    IN  [i \in 1..Len(rows) |-> merged_row(rows[i])]

\* lines 26-27: a DataFrame of an empty list has no 'day' column
create_dataframes ==
    /\ run = "main_analysis"
    /\ pc = "create_dataframes"
    /\ IF oura_processed_data = <<>> \/ ultrahuman_processed_data = <<>>
       THEN /\ merged_df' = merged_df
            /\ pc' = "aborted"
            /\ raised' = "KeyError"
       ELSE /\ merged_df' = merged_table(oura_processed_data, ultrahuman_processed_data,
                                         anecdotal_data)
            /\ pc' = "calculate_errors"
            /\ raised' = "none"
    /\ UNCHANGED <<fetch_vars, run, dates_to_exclude, response, oura_raw_data, oura_processed_data,
                   ultrahuman_raw_data, ultrahuman_processed_data, anecdotal_data>>

Abs(x) ==
    IF x < 0 THEN -x ELSE x

\* lines 42-47
abs_error(jared, vendor) ==
    Abs(jared - vendor)

\* A slip of lines 50-55: anecdotal minus vendor.
signed_error_reversed(jared, vendor) ==
    jared - vendor

\* lines 50-55
signed_error(jared, vendor) ==
    vendor - jared

\* lines 42-55: the twelve columns added to one row
error_columns(row) ==
    [ sleep_start_error_abs_oura |->
          abs_error(row.jared_sleep_start, row.sleeptime_start_oura),
      sleep_start_error_abs_ultrahuman |->
          abs_error(row.jared_sleep_start, row.sleeptime_start_ultrahuman),
      total_sleep_error_abs_oura |->
          abs_error(row.jared_total_sleep, row.total_sleep_duration_oura),
      total_sleep_error_abs_ultrahuman |->
          abs_error(row.jared_total_sleep, row.total_sleep_duration_ultrahuman),
      sleep_end_error_abs_oura |->
          abs_error(row.jared_sleep_end, row.sleeptime_end_oura),
      sleep_end_error_abs_ultrahuman |->
          abs_error(row.jared_sleep_end, row.sleeptime_end_ultrahuman),
      sleep_start_error_oura |->
          signed_error(row.jared_sleep_start, row.sleeptime_start_oura),
      sleep_start_error_ultrahuman |->
          signed_error(row.jared_sleep_start, row.sleeptime_start_ultrahuman),
      total_sleep_error_oura |->
          signed_error(row.jared_total_sleep, row.total_sleep_duration_oura),
      total_sleep_error_ultrahuman |->
          signed_error(row.jared_total_sleep, row.total_sleep_duration_ultrahuman),
      sleep_end_error_oura |->
          signed_error(row.jared_sleep_end, row.sleeptime_end_oura),
      sleep_end_error_ultrahuman |->
          signed_error(row.jared_sleep_end, row.sleeptime_end_ultrahuman) ]

\* df[name] = ...: the new columns are added, a column of the same name replaced
with_errors(row) ==
    error_columns(row) @@ row

calculate_errors ==
    /\ run = "main_analysis"
    /\ pc = "calculate_errors"
    /\ merged_df' = [i \in 1..Len(merged_df) |-> with_errors(merged_df[i])]
    /\ pc' = "done"
    /\ UNCHANGED <<fetch_vars, run, dates_to_exclude, response, oura_raw_data, oura_processed_data,
                   ultrahuman_raw_data, ultrahuman_processed_data, anecdotal_data, raised>>

InitAnalysis ==
    /\ run = "main_analysis"
    /\ pc = "create_dataframes"
    /\ response = [status_code |-> 200, data |-> <<>>]
    /\ dates_to_exclude = {}
    /\ oura_raw_data = <<>>
    /\ oura_processed_data \in OuraMergeData
    /\ ultrahuman_raw_data = <<>>
    /\ ultrahuman_processed_data \in UltrahumanMergeData
    /\ anecdotal_data \in AnecdotalTables
    /\ merged_df = <<>>
    /\ start_date = None
    /\ end_date = None
    /\ current_date = None
    /\ requests = <<>>
    /\ raised = "none"

\* main_analysis.py run as a script, lines 221-232: the anecdotal table is read
\* and its excluded days dropped (lines 228-230), then fetch_and_process_data is
\* called with three positional arguments (line 232) while it is declared with
\* two (line 10), so the call raises before the body runs.
fetch_and_process_data ==
    /\ run = "main"
    /\ pc = "fetch_and_process_data"
    /\ raised' = "TypeError"
    /\ pc' = "aborted"
    /\ UNCHANGED <<fetch_vars, run, dates_to_exclude, response, oura_raw_data,
                   oura_processed_data, ultrahuman_raw_data, ultrahuman_processed_data,
                   anecdotal_data, merged_df>>

\* lines 222-230
InitMain ==
    /\ run = "main"
    /\ pc = "fetch_and_process_data"
    /\ response = [status_code |-> 200, data |-> <<>>]
    /\ dates_to_exclude \in SUBSET Days
    /\ oura_raw_data = <<>>
    /\ oura_processed_data = <<>>
    /\ start_date = None
    /\ end_date = None
    /\ current_date = None
    /\ requests = <<>>
    /\ ultrahuman_raw_data = <<>>
    /\ ultrahuman_processed_data = <<>>
    /\ \E table \in AnecdotalTables :
          anecdotal_data = SelectSeq(table, LAMBDA row : row.Date \notin dates_to_exclude)
    /\ merged_df = <<>>
    /\ raised = "none"

Init ==
    InitOura \/ InitUltrahuman \/ InitUltrahumanFetch \/ InitAnalysis \/ InitMain

Next ==
    \/ get_oura_sleep_data
    \/ process_sleep_data
    \/ get_ultrahuman_sleep_data
    \/ process_ultrahuman_sleep_data
    \/ fetch_and_process_data
    \/ create_dataframes
    \/ calculate_errors

Spec ==
    Init /\ [][Next]_vars

(***************************************************************************)
(* Where a run stands                                                      *)
(***************************************************************************)
OuraFetched ==
    run = "oura_api" /\ response.status_code = 200 /\ pc # "get_oura_sleep_data"

\* process_sleep_data was called (it is skipped for an empty list)
OuraProcessRan ==
    run = "oura_api" /\ pc \in {"done", "aborted"} /\ oura_raw_data # <<>>

OuraProcessed ==
    OuraProcessRan /\ raised = "none"

UltrahumanProcessed ==
    run = "ultrahuman_api" /\ pc = "done"

Merged ==
    run = "main_analysis" /\ pc \in {"calculate_errors", "done"}

ErrorsDone ==
    run = "main_analysis" /\ pc = "done"

(***************************************************************************)
(* C1: Oura day reconciliation                                             *)
(***************************************************************************)
\* deep + light + rem of a session, a missing rem counting as nothing
StageSum(session) ==
    session.deep_sleep_duration + session.light_sleep_duration
      + (IF session.rem_present THEN session.rem_sleep_duration ELSE 0)

\* The first session of `day` in `data` that no session of the day exceeds.
LongestFirst(data, day) ==
    CHOOSE i \in 1..Len(data) :
        /\ data[i].day = day
        /\ \A j \in 1..Len(data) :
              data[j].day = day =>
                  /\ StageSum(data[j]) <= StageSum(data[i])
                  /\ (j < i => StageSum(data[j]) < StageSum(data[i]))

DaysOf(data) ==
    {data[i].day : i \in 1..Len(data)}

OneSessionPerIncludedDay ==
    /\ DaysOf(oura_raw_data) = DaysOf(response.data) \ dates_to_exclude
    /\ Len(oura_raw_data) = Cardinality(DaysOf(oura_raw_data))

\* C1: on a 200 response the result of get_oura_sleep_data holds exactly one
\* session for each non-excluded day of the input, and it is the session with
\* the largest deep + light + rem of that day, the first one on a tie.
C1_OuraKeepsLongest ==
    OuraFetched =>
        /\ OneSessionPerIncludedDay
        /\ \A k \in 1..Len(oura_raw_data) :
              oura_raw_data[k].id
                  = response.data[LongestFirst(response.data, oura_raw_data[k].day)].id

\* The same for the responses in which every session carries rem_sleep_duration
\* (kept beside C1 to show where the code and the claim part).
C1_HoldsWhenRemPresent ==
    (OuraFetched /\ \A i \in 1..Len(response.data) : response.data[i].rem_present)
        => C1_OuraKeepsLongest

(***************************************************************************)
(* C2: Ultrahuman day reconciliation                                       *)
(***************************************************************************)
\* The entry process_ultrahuman_sleep_data emits when it keeps `record`.
EntryOf(record) ==
    ultrahuman_processed_entry(
        [ day |-> ultrahuman_day(record),
          data |-> record,
          duration |-> ultrahuman_duration(record),
          reference_date |-> midnight_of(fromtimestamp(record.bedtime_end)) ])

\* The records of `day` that are not excluded, as positions of the raw list.
RecordsOfDay(day) ==
    {i \in 1..Len(ultrahuman_raw_data) : ultrahuman_day(ultrahuman_raw_data[i]) = day}

\* Seconds between the local datetimes of bedtime start and bedtime end.
InBedSeconds(record) ==
    timestamp(fromtimestamp(record.bedtime_end))
        - timestamp(fromtimestamp(record.bedtime_start))

\* The first record of `day` that no record of the day exceeds in time in bed.
LongestInBedFirst(day) ==
    CHOOSE i \in RecordsOfDay(day) :
        \A j \in RecordsOfDay(day) :
            /\ InBedSeconds(ultrahuman_raw_data[j]) <= InBedSeconds(ultrahuman_raw_data[i])
            /\ (j < i => InBedSeconds(ultrahuman_raw_data[j])
                            < InBedSeconds(ultrahuman_raw_data[i]))

NoExcludedDay(list) ==
    \A k \in 1..Len(list) : list[k].day \notin dates_to_exclude

\* C3: no entry of an excluded day is in the output of get_oura_sleep_data,
\* process_sleep_data or process_ultrahuman_sleep_data, and the output is the
\* one the input without its excluded records gives: excluded records are
\* dropped before the per-day selection.
C3_Exclusion ==
    /\ OuraFetched =>
          /\ NoExcludedDay(oura_raw_data)
          /\ oura_raw_data
                = oura_filtered_data(
                      SelectSeq(response.data, LAMBDA x : x.day \notin dates_to_exclude), {})
    /\ OuraProcessed => NoExcludedDay(oura_processed_data)
    /\ UltrahumanProcessed =>
          /\ NoExcludedDay(ultrahuman_processed_data)
          /\ ultrahuman_processed_data
                = ultrahuman_processed(
                      SelectSeq(ultrahuman_raw_data,
                                LAMBDA x : ultrahuman_day(x) \notin dates_to_exclude), {})

\* The raw data holds a record of an excluded day and one of another day, and
\* the normalizer has emitted its entries.
C3_Witness ==
    /\ OuraProcessed
    /\ DaysOf(response.data) \cap dates_to_exclude # {}
    /\ Len(response.data) >= 2
    /\ Len(oura_processed_data) = 1

(***************************************************************************)
(* C4, C5, C9: the phase-code window                                       *)
(***************************************************************************)
AllAwake(session) ==
    \A i \in 1..Len(session.sleep_phase_5_min) : session.sleep_phase_5_min[i] = "4"

\* C4: for a record whose phase sequence is empty or all awake, process_sleep_data
\* completes without raising and emits sleeptime_start = sleeptime_end = bedtime_start.
C4_AllAwakeZeroWindow ==
    (OuraProcessRan /\ \E k \in 1..Len(oura_raw_data) : AllAwake(oura_raw_data[k])) =>
        /\ raised = "none"
        /\ Len(oura_processed_data) = Len(oura_raw_data)
        /\ \A k \in 1..Len(oura_raw_data) :
              AllAwake(oura_raw_data[k]) =>
                  /\ oura_processed_data[k].sleeptime_start = oura_processed_data[k].bedtime_start
                  /\ oura_processed_data[k].sleeptime_end = oura_processed_data[k].bedtime_start

\* 0-based position of the first / last character that is not "4"
FirstAsleep(ph) ==
    (CHOOSE i \in 1..Len(ph) : ph[i] # "4" /\ \A j \in 1..(i - 1) : ph[j] = "4") - 1

LastAsleep(ph) ==
    (CHOOSE i \in 1..Len(ph) : ph[i] # "4" /\ \A j \in (i + 1)..Len(ph) : ph[j] = "4") - 1

AwakeBetween(ph, i, j) ==
    Cardinality({k \in 0..(Len(ph) - 1) : i <= k /\ k <= j /\ ph[k + 1] = "4"})

\* C5: with i the first and j the last index whose code is not 4,
\* sleeptime_start = bedtime_start + 5*i, sleeptime_end = bedtime_start + 5*(j+1)
\* and awake_time_filtered_phases = 5 * (number of 4s between i and j);
\* [4,4,0,0,4] with bedtime_start 0 gives 10, 20 and 0.
C5_PhaseWindow ==
    OuraProcessed =>
        /\ Len(oura_processed_data) = Len(oura_raw_data)
        /\ \A k \in 1..Len(oura_raw_data) :
              LET ph == oura_raw_data[k].sleep_phase_5_min
                  e == oura_processed_data[k]
              IN  /\ ~AllAwake(oura_raw_data[k]) =>
                        /\ e.sleeptime_start = e.bedtime_start + 5 * FirstAsleep(ph)
                        /\ e.sleeptime_end = e.bedtime_start + 5 * (LastAsleep(ph) + 1)
                        /\ e.awake_time_filtered_phases
                              = 5 * AwakeBetween(ph, FirstAsleep(ph), LastAsleep(ph))
                  /\ (ph = <<"4", "4", "0", "0", "4">> /\ e.bedtime_start = 0) =>
                        /\ e.sleeptime_start = 10
                        /\ e.sleeptime_end = 20
                        /\ e.awake_time_filtered_phases = 0

\* A record whose sleep window starts late, ends early and holds an awake bucket.
C5_Witness ==
    /\ OuraProcessed
    /\ \E k \in 1..Len(oura_raw_data) :
          /\ oura_raw_data[k].sleep_phase_5_min = <<"4", "1", "4", "0", "4">>
          /\ oura_processed_data[k].bedtime_start = 0
          /\ oura_processed_data[k].sleeptime_start = 5
          /\ oura_processed_data[k].sleeptime_end = 20
          /\ oura_processed_data[k].awake_time_filtered_phases = 5

\* C9: every entry process_sleep_data emits for a record with a non-awake code
\* has bedtime_start <= sleeptime_start <= sleeptime_end <= bedtime_end.
C9_OuraWindowOrdered ==
    OuraProcessed =>
        \A k \in 1..Len(oura_processed_data) :
            /\ oura_processed_data[k].bedtime_start <= oura_processed_data[k].sleeptime_start
            /\ oura_processed_data[k].sleeptime_start <= oura_processed_data[k].sleeptime_end
            /\ oura_processed_data[k].sleeptime_end <= oura_processed_data[k].bedtime_end

(***************************************************************************)
(* C6: awake time of the segment-list normalizer                           *)
(***************************************************************************)
\* Earliest start and latest end (epoch seconds) of the non-awake segments.
WindowStart(graph) ==
    MinOf({graph[i].start : i \in {j \in 1..Len(graph) : graph[j].type # "awake"}})

WindowEnd(graph) ==
    MaxOf({graph[i].end : i \in {j \in 1..Len(graph) : graph[j].type # "awake"}})

HasSleep(graph) ==
    \E i \in 1..Len(graph) : graph[i].type # "awake"

\* Seconds of the awake segments that lie wholly inside the sleep window.
AwakeSecondsInside(graph) ==
    SumSeq([i \in 1..Len(graph) |->
              IF /\ graph[i].type = "awake"
                 /\ graph[i].start >= WindowStart(graph)
                 /\ graph[i].end <= WindowEnd(graph)
              THEN graph[i].end - graph[i].start ELSE 0])

\* Seconds of the awake segments that start inside the sleep window.
AwakeSecondsStartingInside(graph) ==
    SumSeq([i \in 1..Len(graph) |->
              IF /\ graph[i].type = "awake"
                 /\ graph[i].start >= WindowStart(graph)
                 /\ graph[i].start < WindowEnd(graph)
              THEN graph[i].end - graph[i].start ELSE 0])

\* The sleep graph of the record behind the k-th entry (one record a day here).
GraphOfEntry(k) ==
    ultrahuman_raw_data[LongestInBedFirst(ultrahuman_processed_data[k].day)].sleep_graph

ExampleGraph ==
    << Segment("light_sleep", GraphBase + 0, GraphBase + 300),
       Segment("awake", GraphBase + 300, GraphBase + 360),
       Segment("deep_sleep", GraphBase + 360, GraphBase + 600) >>

\* C6 as stated: awake_time_filtered is the sum, integer-divided by 60, of the
\* seconds of the awake segments that lie fully inside [sleep_start, sleep_end]
\* (start >= sleep_start and end <= sleep_end); no awake segment that reaches
\* past sleep_end contributes.
C6_AwakeFullyInside ==
    UltrahumanProcessed =>
        \A k \in 1..Len(ultrahuman_processed_data) :
            HasSleep(GraphOfEntry(k)) =>
                ultrahuman_processed_data[k].awake_time_filtered
                    = AwakeSecondsInside(GraphOfEntry(k)) \div 60

\* C6 amended: awake_time_filtered is the sum, integer-divided by 60, of the
\* whole durations of the awake segments whose start lies in
\* [sleep_start, sleep_end); (asleep,0,300),(awake,300,360),(asleep,360,600)
\* gives 1 minute.
C6_AwakeStartingInside ==
    UltrahumanProcessed =>
        \A k \in 1..Len(ultrahuman_processed_data) :
            /\ HasSleep(GraphOfEntry(k)) =>
                  ultrahuman_processed_data[k].awake_time_filtered
                      = AwakeSecondsStartingInside(GraphOfEntry(k)) \div 60
            /\ GraphOfEntry(k) = ExampleGraph =>
                  ultrahuman_processed_data[k].awake_time_filtered = 1

\* An awake segment starts inside the sleep window, ends after it and is counted.
C6_Witness ==
    /\ UltrahumanProcessed
    /\ \E k \in 1..Len(ultrahuman_processed_data) :
          /\ HasSleep(GraphOfEntry(k))
          /\ AwakeSecondsInside(GraphOfEntry(k)) = 90
          /\ AwakeSecondsStartingInside(GraphOfEntry(k)) = 180
          /\ ultrahuman_processed_data[k].awake_time_filtered = 3

(***************************************************************************)
(* C7, C8: the merged table and its error columns                          *)
(***************************************************************************)
VendorNumbersZero(row, vendor) ==
    IF vendor = "oura"
    THEN /\ row.bedtime_start_oura = 0 /\ row.bedtime_end_oura = 0
         /\ row.sleeptime_start_oura = 0 /\ row.sleeptime_end_oura = 0
         /\ row.deep_sleep_duration_oura = 0 /\ row.light_sleep_duration_oura = 0
         /\ row.rem_sleep_duration_oura = 0 /\ row.total_sleep_duration_oura = 0
         /\ row.awake_time_filtered_phases = 0 /\ row.awake_time_filtered_subtraction = 0
    ELSE /\ row.bedtime_start_ultrahuman = 0 /\ row.bedtime_end_ultrahuman = 0
         /\ row.sleeptime_start_ultrahuman = 0 /\ row.sleeptime_end_ultrahuman = 0
         /\ row.deep_sleep_duration_ultrahuman = 0 /\ row.light_sleep_duration_ultrahuman = 0
         /\ row.rem_sleep_duration_ultrahuman = 0 /\ row.total_sleep_duration_ultrahuman = 0
         /\ row.awake_time_filtered = 0

NoVendorHas(day) ==
    /\ day \notin DaysOf(oura_processed_data)
    /\ day \notin DaysOf(ultrahuman_processed_data)

ErrorsOf(row, signed, absolute, jared, vendor) ==
    /\ row[signed] = row[vendor] - row[jared]
    /\ row[absolute] = (IF row[signed] < 0 THEN 0 - row[signed] ELSE row[signed])

\* C8: in every row, for each vendor and each of sleep start, total sleep and
\* sleep end, the signed error is the vendor value minus the anecdotal value
\* and the absolute error its absolute value, and every column the row had
\* before keeps its value.
C8_ErrorColumns ==
    ErrorsDone =>
        LET before == merged_table(oura_processed_data, ultrahuman_processed_data,
                                   anecdotal_data)
        IN  /\ Len(merged_df) = Len(before)
            /\ \A i \in 1..Len(merged_df) :
                  LET row == merged_df[i]
                  IN  /\ \A c \in DOMAIN before[i] : row[c] = before[i][c]
                      /\ ErrorsOf(row, "sleep_start_error_oura", "sleep_start_error_abs_oura",
                                  "jared_sleep_start", "sleeptime_start_oura")
                      /\ ErrorsOf(row, "sleep_start_error_ultrahuman",
                                  "sleep_start_error_abs_ultrahuman",
                                  "jared_sleep_start", "sleeptime_start_ultrahuman")
                      /\ ErrorsOf(row, "total_sleep_error_oura", "total_sleep_error_abs_oura",
                                  "jared_total_sleep", "total_sleep_duration_oura")
                      /\ ErrorsOf(row, "total_sleep_error_ultrahuman",
                                  "total_sleep_error_abs_ultrahuman",
                                  "jared_total_sleep", "total_sleep_duration_ultrahuman")
                      /\ ErrorsOf(row, "sleep_end_error_oura", "sleep_end_error_abs_oura",
                                  "jared_sleep_end", "sleeptime_end_oura")
                      /\ ErrorsOf(row, "sleep_end_error_ultrahuman",
                                  "sleep_end_error_abs_ultrahuman",
                                  "jared_sleep_end", "sleeptime_end_ultrahuman")

\* One row where Oura's sleep start is 15 above the anecdotal one and one where
\* it is 15 below.
C8_Witness ==
    /\ ErrorsDone
    /\ Len(merged_df) = 2
    /\ merged_df[1].sleep_start_error_oura = 15
    /\ merged_df[1].sleep_start_error_abs_oura = 15
    /\ merged_df[2].sleep_start_error_oura = -15
    /\ merged_df[2].sleep_start_error_abs_oura = 15

(***************************************************************************)
(* C10: total sleep                                                        *)
(***************************************************************************)
StagesAddUp(entry) ==
    entry.total_sleep_duration
        = entry.deep_sleep_duration + entry.light_sleep_duration + entry.rem_sleep_duration

\* C10: in every entry either normalizer emits, total_sleep_duration equals
\* deep_sleep_duration + light_sleep_duration + rem_sleep_duration (minutes).
C10_TotalIsSumOfStages ==
    /\ OuraProcessed =>
          \A k \in 1..Len(oura_processed_data) : StagesAddUp(oura_processed_data[k])
    /\ UltrahumanProcessed =>
          \A k \in 1..Len(ultrahuman_processed_data) :
              StagesAddUp(ultrahuman_processed_data[k])

(***************************************************************************)
(* C11: the fetch loop of the segment-list vendor                          *)
(***************************************************************************)
\* get_ultrahuman_sleep_data was called / has returned
UltrahumanFetchCalled ==
    run = "ultrahuman_api" /\ start_date # None

UltrahumanFetchReturned ==
    UltrahumanFetchCalled /\ pc # "get_ultrahuman_sleep_data"

\* The non-excluded days of [start_date, last], ascending.
DaysToAsk(last) ==
    DaysInOrder({d \in start_date..last : d \notin dates_to_exclude})

\* The records of the requests that answered 200, in request order.
AnsweredRecords ==
    Flatten([i \in 1..Len(requests) |->
                IF requests[i].status_code = 200 THEN requests[i].data ELSE <<>>])

\* C11: whatever the statuses, the requests made up to a point of the loop are
\* one for each non-excluded day before current_date, ascending; the loop never
\* runs past end_date and can always take its next pass; when it has returned
\* every non-excluded day of [start_date, end_date] was asked for once, nothing
\* was raised, and the list holds the records of the 200 answers in request order.
C11_FetchResilience ==
    UltrahumanFetchCalled =>
        /\ raised = "none" /\ pc # "aborted"
        /\ [i \in 1..Len(requests) |-> requests[i].date] = DaysToAsk(current_date - 1)
        /\ ultrahuman_raw_data = AnsweredRecords
        /\ current_date <= Max(start_date, end_date + 1)
        /\ pc = "get_ultrahuman_sleep_data" => ENABLED get_ultrahuman_sleep_data
        /\ UltrahumanFetchReturned =>
              /\ current_date = Max(start_date, end_date + 1)
              /\ [i \in 1..Len(requests) |-> requests[i].date] = DaysToAsk(end_date)

\* The first day answered 500, the next one 200: the fetch went on and returned
\* the one record.
C11_Witness ==
    /\ UltrahumanFetchReturned
    /\ Len(requests) = 2
    /\ requests[1].status_code = 500
    /\ requests[2].status_code = 200
    /\ requests[1].date < requests[2].date
    /\ ultrahuman_raw_data = requests[2].data
    /\ Len(ultrahuman_processed_data) = 1

(***************************************************************************)
(* C12: each vendor's fields in the merged table                           *)
(***************************************************************************)
\* The row carries the fields of the Oura / Ultrahuman entry e.
CarriesOura(row, e) ==
    /\ row.bedtime_start_oura = e.bedtime_start
    /\ row.bedtime_end_oura = e.bedtime_end
    /\ row.sleeptime_start_oura = e.sleeptime_start
    /\ row.sleeptime_end_oura = e.sleeptime_end
    /\ row.deep_sleep_duration_oura = e.deep_sleep_duration
    /\ row.light_sleep_duration_oura = e.light_sleep_duration
    /\ row.rem_sleep_duration_oura = e.rem_sleep_duration
    /\ row.total_sleep_duration_oura = e.total_sleep_duration
    /\ row.awake_time_filtered_phases = e.awake_time_filtered_phases
    /\ row.awake_time_filtered_subtraction = e.awake_time_filtered_subtraction

CarriesUltrahuman(row, e) ==
    /\ row.bedtime_start_ultrahuman = e.bedtime_start
    /\ row.bedtime_end_ultrahuman = e.bedtime_end
    /\ row.sleeptime_start_ultrahuman = e.sleeptime_start
    /\ row.sleeptime_end_ultrahuman = e.sleeptime_end
    /\ row.deep_sleep_duration_ultrahuman = e.deep_sleep_duration
    /\ row.light_sleep_duration_ultrahuman = e.light_sleep_duration
    /\ row.rem_sleep_duration_ultrahuman = e.rem_sleep_duration
    /\ row.total_sleep_duration_ultrahuman = e.total_sleep_duration
    /\ row.awake_time_filtered = e.awake_time_filtered

\* C12: in the table create_dataframes returns, the row of an anecdotal day D
\* carries, for each vendor, the fields of that vendor's entry for D when it
\* has one and zeros when it has none; Ultrahuman's fields are there whether
\* or not Oura has an entry for D.
C12_VendorIndependence ==
    Merged =>
        \A i \in 1..Len(merged_df) :
            /\ \A k \in 1..Len(oura_processed_data) :
                  oura_processed_data[k].day = merged_df[i].Date
                      => CarriesOura(merged_df[i], oura_processed_data[k])
            /\ merged_df[i].Date \notin DaysOf(oura_processed_data)
                  => VendorNumbersZero(merged_df[i], "oura")
            /\ \A k \in 1..Len(ultrahuman_processed_data) :
                  ultrahuman_processed_data[k].day = merged_df[i].Date
                      => CarriesUltrahuman(merged_df[i], ultrahuman_processed_data[k])
            /\ merged_df[i].Date \notin DaysOf(ultrahuman_processed_data)
                  => VendorNumbersZero(merged_df[i], "ultrahuman")

\* The same for the rows of the days Oura has an entry for (kept beside C12 to
\* show where the code and the claim part).
C12_HoldsWhereOuraHasDay ==
    Merged =>
        \A i \in 1..Len(merged_df) :
            merged_df[i].Date \in DaysOf(oura_processed_data) =>
                /\ \A k \in 1..Len(oura_processed_data) :
                      oura_processed_data[k].day = merged_df[i].Date
                          => CarriesOura(merged_df[i], oura_processed_data[k])
                /\ \A k \in 1..Len(ultrahuman_processed_data) :
                      ultrahuman_processed_data[k].day = merged_df[i].Date
                          => CarriesUltrahuman(merged_df[i], ultrahuman_processed_data[k])
                /\ merged_df[i].Date \notin DaysOf(ultrahuman_processed_data)
                      => VendorNumbersZero(merged_df[i], "ultrahuman")

(***************************************************************************)
(* C13: the minute offset of the phase-code normalizer                     *)
(***************************************************************************)
NaiveMinutes(clock) ==
    clock.hour * 60 + clock.minute

\* The rule as the claim words it: 1440 taken off before noon.
OffsetTakenOffBeforeNoon(clock) ==
    IF clock.hour < 12 THEN NaiveMinutes(clock) - 1440 ELSE NaiveMinutes(clock)

\* The rule the other way round: 1440 taken off from noon on.
OffsetTakenOffFromNoon(clock) ==
    IF clock.hour >= 12 THEN NaiveMinutes(clock) - 1440 ELSE NaiveMinutes(clock)

\* C13 as stated: the offset of a timestamp whose clock hour is before noon is
\* hour*60+minute minus 1440, that of a clock hour at or after noon the naive
\* hour*60+minute.
C13_OffsetAsStated ==
    OuraProcessed =>
        \A k \in 1..Len(oura_processed_data) :
            /\ oura_processed_data[k].bedtime_start
                  = OffsetTakenOffBeforeNoon(oura_raw_data[k].bedtime_start)
            /\ oura_processed_data[k].bedtime_end
                  = OffsetTakenOffBeforeNoon(oura_raw_data[k].bedtime_end)

\* C13 amended: the offset of a timestamp whose clock hour is before noon is
\* the naive hour*60+minute, that of a clock hour at or after noon is
\* hour*60+minute minus 1440.
C13_OffsetAsComputed ==
    OuraProcessed =>
        /\ Len(oura_processed_data) = Len(oura_raw_data)
        /\ \A k \in 1..Len(oura_processed_data) :
              /\ oura_processed_data[k].bedtime_start
                    = OffsetTakenOffFromNoon(oura_raw_data[k].bedtime_start)
              /\ oura_processed_data[k].bedtime_end
                    = OffsetTakenOffFromNoon(oura_raw_data[k].bedtime_end)

\* A session from 11:50 to 12:15: the morning time keeps its 710 minutes, the
\* time in the hour of noon becomes 735 - 1440.
C13_Witness ==
    /\ OuraProcessed
    /\ \E k \in 1..Len(oura_processed_data) :
          /\ oura_raw_data[k].bedtime_start = Clock(11, 50)
          /\ oura_raw_data[k].bedtime_end = Clock(12, 15)
          /\ oura_processed_data[k].bedtime_start = 710
          /\ oura_processed_data[k].bedtime_end = -705

(***************************************************************************)
(* C14: the sleep window of the segment-list normalizer                    *)
(***************************************************************************)
\* Whole minutes from the midnight that begins `day` to the instant ts
\* (rounded down).
MinutesFromMidnight(ts, day) ==
    (ts - day * 86400) \div 60

\* C14: sleeptime_start is the minute offset of the earliest start and
\* sleeptime_end that of the latest end among the segments whose type is not
\* 'awake', wherever they stand in the list; with no such segment
\* sleeptime_start = bedtime_start, sleeptime_end = bedtime_end and
\* awake_time_filtered = 0.
C14_WindowExtraction ==
    UltrahumanProcessed =>
        \A k \in 1..Len(ultrahuman_processed_data) :
            LET e == ultrahuman_processed_data[k]
            IN  IF HasSleep(GraphOfEntry(k))
                THEN /\ e.sleeptime_start
                          = MinutesFromMidnight(WindowStart(GraphOfEntry(k)), e.day)
                     /\ e.sleeptime_end
                          = MinutesFromMidnight(WindowEnd(GraphOfEntry(k)), e.day)
                ELSE /\ e.sleeptime_start = e.bedtime_start
                     /\ e.sleeptime_end = e.bedtime_end
                     /\ e.awake_time_filtered = 0

\* The earliest asleep segment stands last in the list and the latest first; an
\* awake segment lies before them.  The window runs from 23:00 to 23:10.
C14_Witness ==
    /\ UltrahumanProcessed
    /\ Len(ultrahuman_raw_data) = 1
    /\ ultrahuman_raw_data[1].sleep_graph
          = << Segment("deep_sleep", GraphBase + 360, GraphBase + 600),
               Segment("awake", GraphBase + 300, GraphBase + 360),
               Segment("light_sleep", GraphBase + 0, GraphBase + 300) >>
    /\ ultrahuman_processed_data[1].sleeptime_start = -60
    /\ ultrahuman_processed_data[1].sleeptime_end = -50

\* A sleep graph of awake segments only: the window falls back on the time in bed.
C14_FallbackReached ==
    /\ UltrahumanProcessed
    /\ Len(ultrahuman_raw_data) = 1
    /\ ultrahuman_raw_data[1].sleep_graph # <<>>
    /\ ~HasSleep(ultrahuman_raw_data[1].sleep_graph)
    /\ ultrahuman_processed_data[1].sleeptime_start = -60
    /\ ultrahuman_processed_data[1].sleeptime_end = 480
    /\ ultrahuman_processed_data[1].bedtime_end = 480
    /\ ultrahuman_processed_data[1].awake_time_filtered = 0

(***************************************************************************)
(* C15: a stage field missing from a payload                               *)
(***************************************************************************)
HasStage(record, t) ==
    \E i \in 1..Len(record.sleep_stages) : record.sleep_stages[i].type = t

\* The record behind the k-th Ultrahuman entry.
RecordOfEntry(k) ==
    ultrahuman_raw_data[LongestInBedFirst(ultrahuman_processed_data[k].day)]

\* C15: a record that lacks a stage field is normalized without an exception
\* and the duration of that stage is reported as 0: an Oura session without
\* 'rem_sleep_duration' (one that has an asleep phase, so that nothing else
\* stands in the way), an Ultrahuman record without a stage entry of some type.
C15_MissingFieldNotFatal ==
    /\ (OuraProcessRan /\ \A k \in 1..Len(oura_raw_data) : ~AllAwake(oura_raw_data[k])) =>
          /\ raised = "none"
          /\ Len(oura_processed_data) = Len(oura_raw_data)
          /\ \A k \in 1..Len(oura_raw_data) :
                ~oura_raw_data[k].rem_present
                    => oura_processed_data[k].rem_sleep_duration = 0
    /\ UltrahumanProcessed =>
          /\ raised = "none"
          /\ \A k \in 1..Len(ultrahuman_processed_data) :
                /\ ~HasStage(RecordOfEntry(k), "rem_sleep")
                      => ultrahuman_processed_data[k].rem_sleep_duration = 0
                /\ ~HasStage(RecordOfEntry(k), "deep_sleep")
                      => ultrahuman_processed_data[k].deep_sleep_duration = 0
                /\ ~HasStage(RecordOfEntry(k), "light_sleep")
                      => ultrahuman_processed_data[k].light_sleep_duration = 0

\* The Ultrahuman half of C15 alone (kept beside C15 to show where the code and
\* the claim part): a missing stage entry gives 0 and nothing is raised.
C15_HoldsForUltrahuman ==
    UltrahumanProcessed =>
        /\ raised = "none"
        /\ \A k \in 1..Len(ultrahuman_processed_data) :
              ~HasStage(RecordOfEntry(k), "rem_sleep")
                  => ultrahuman_processed_data[k].rem_sleep_duration = 0

(***************************************************************************)
(* C16: the run of main_analysis.py                                        *)
(***************************************************************************)
MainRun ==
    run = "main"

\* C16: the run of the entry point goes through its stages (fetch and
\* normalize, merge, errors, report) and no stage aborts it: it never stands
\* aborted, and when it can take no further step it has written the report.
C16_PipelineProgress ==
    MainRun =>
        /\ pc # "aborted"
        /\ raised = "none"
        /\ ~ENABLED Next => pc = "reported"

(***************************************************************************)
(* C17: one entry a day, in day order                                      *)
(***************************************************************************)
\* Each entry is of a later day than the one before it.
AscendingDays(list) ==
    \A i, j \in 1..Len(list) : i < j => list[i].day < list[j].day

\* C17: the lists get_oura_sleep_data, process_sleep_data (on that result) and
\* process_ultrahuman_sleep_data return hold at most one entry per calendar day
\* and are sorted by day, ascending, whatever the number and order of the raw
\* records.
C17_OnePerDayInOrder ==
    /\ OuraFetched => AscendingDays(oura_raw_data)
    /\ OuraProcessed =>
          /\ AscendingDays(oura_processed_data)
          /\ DaysOf(oura_processed_data) = DaysOf(oura_raw_data)
    /\ UltrahumanProcessed => AscendingDays(ultrahuman_processed_data)

\* Three sessions of the days 2, 1, 2 in this order come out as one entry of
\* day 1 followed by one of day 2.
C17_Witness ==
    /\ OuraProcessed
    /\ Len(response.data) = 3
    /\ response.data[1].day = 2
    /\ response.data[2].day = 1
    /\ response.data[3].day = 2
    /\ Len(oura_processed_data) = 2
    /\ oura_processed_data[1].day = 1
    /\ oura_processed_data[2].day = 2

\* The same for the segment-list vendor: records that end on the days 2, 1, 2.
C17_UltrahumanReached ==
    /\ UltrahumanProcessed
    /\ Len(ultrahuman_raw_data) = 3
    /\ ultrahuman_day(ultrahuman_raw_data[1]) = 2
    /\ ultrahuman_day(ultrahuman_raw_data[2]) = 1
    /\ ultrahuman_day(ultrahuman_raw_data[3]) = 2
    /\ Len(ultrahuman_processed_data) = 2
    /\ ultrahuman_processed_data[1].day = 1

(***************************************************************************)
(* C18: the minute offsets of the segment-list normalizer keep the order   *)
(***************************************************************************)
\* The raw instants (epoch seconds) of the record behind the k-th entry, each
\* with the minute offset the entry reports for it.
RawAndEmitted(k) ==
    LET e == ultrahuman_processed_data[k]
    IN  { <<RecordOfEntry(k).bedtime_start, e.bedtime_start>>,
          <<RecordOfEntry(k).bedtime_end, e.bedtime_end>> }
        \cup (IF HasSleep(GraphOfEntry(k))
              THEN { <<WindowStart(GraphOfEntry(k)), e.sleeptime_start>>,
                     <<WindowEnd(GraphOfEntry(k)), e.sleeptime_end>> }
              ELSE {})

\* Every asleep segment of the record lies within its time in bed.
AsleepWithinBed(record) ==
    \A i \in 1..Len(record.sleep_graph) :
        record.sleep_graph[i].type # "awake" =>
            /\ record.bedtime_start <= record.sleep_graph[i].start
            /\ record.sleep_graph[i].end <= record.bedtime_end

====
